---- MODULE Spec2Model ----
(***************************************************************************)
(* A model of the UE4SS mod manager: the Mod entity (src/common/mod.py),   *)
(* the registry / reconciler (src/common/mod_manager.py) and the GUI       *)
(* handlers that drive it (src/common/gui.py).                             *)
(*                                                                         *)
(* The filesystem is modelled explicitly: the root path, the immediate     *)
(* entries of the root (each a file or a folder with scripts/, dlls/ and   *)
(* an optional enabled.txt), and the two list files mods.txt / mods.json.  *)
(* File names, folder names and text lines are strings and the string      *)
(* computations of the code (stem, upper, strip, endswith, replace, split, *)
(* slicing) are computed character by character.                           *)
(***************************************************************************)
EXTENDS Integers, Sequences, FiniteSets, TLC

VARIABLES
    path,           \* self.path: [parts, kind], kind in {"dir","file","missing"}
    entries,        \* immediate entries of the root: entry name -> Entry
    modsTxt,        \* <root>/mods.txt : [exists, lines]
    modsJson,       \* <root>/mods.json: [exists, wellformed, data]
    mgr,            \* outcome of UE4SSModManager(path): "none", "ok" or the exception raised
    mods,           \* self.mods: sequence of Mod records
    lastOp,         \* the last operation run, with its inputs and its outcome
    constructed,    \* the registry as __init__ produced it
    fsDirty         \* has any file changed since __init__ ?

vars == <<path, entries, modsTxt, modsJson, mgr, mods, lastOp, constructed, fsDirty>>

---------------------------------------------------------------------------
(* Bounds of the model.                                                    *)

\* at most this many entries exist under the root
MaxFolders == 2

---------------------------------------------------------------------------
(* String helpers: Python str / pathlib operations, character by character *)

CharAt(s, i) == SubSeq(s, i, i)

UpperChar(c) ==
    CASE c = "a" -> "A" [] c = "b" -> "B" [] c = "c" -> "C" [] c = "d" -> "D"
      [] c = "e" -> "E" [] c = "f" -> "F" [] c = "g" -> "G" [] c = "h" -> "H"
      [] c = "i" -> "I" [] c = "j" -> "J" [] c = "k" -> "K" [] c = "l" -> "L"
      [] c = "m" -> "M" [] c = "n" -> "N" [] c = "o" -> "O" [] c = "p" -> "P"
      [] c = "q" -> "Q" [] c = "r" -> "R" [] c = "s" -> "S" [] c = "t" -> "T"
      [] c = "u" -> "U" [] c = "v" -> "V" [] c = "w" -> "W" [] c = "x" -> "X"
      [] c = "y" -> "Y" [] c = "z" -> "Z" [] OTHER -> c

RECURSIVE upper(_)
upper(s) == IF Len(s) = 0 THEN ""
            ELSE UpperChar(CharAt(s, 1)) \o upper(SubSeq(s, 2, Len(s)))

endswith(s, p) == Len(p) <= Len(s) /\ SubSeq(s, Len(s) - Len(p) + 1, Len(s)) = p

\* str.find, 1-based; 0 when sub does not occur in s
find(s, sub) ==
    LET hits == {i \in 1..(Len(s) - Len(sub) + 1) : SubSeq(s, i, i + Len(sub) - 1) = sub}
    IN  IF hits = {} THEN 0 ELSE CHOOSE i \in hits : \A j \in hits : i <= j

\* str.rfind, 1-based; 0 when sub does not occur in s
rfind(s, sub) ==
    LET hits == {i \in 1..(Len(s) - Len(sub) + 1) : SubSeq(s, i, i + Len(sub) - 1) = sub}
    IN  IF hits = {} THEN 0 ELSE CHOOSE i \in hits : \A j \in hits : i >= j

\* str.strip() for the whitespace that occurs in the lines of the model
RECURSIVE lstrip(_)
lstrip(s) == IF Len(s) > 0 /\ CharAt(s, 1) = " " THEN lstrip(SubSeq(s, 2, Len(s))) ELSE s

RECURSIVE rstrip(_)
rstrip(s) == IF Len(s) > 0 /\ CharAt(s, Len(s)) = " " THEN rstrip(SubSeq(s, 1, Len(s) - 1)) ELSE s

strip(s) == rstrip(lstrip(s))

\* PurePath.stem: the final component without its last suffix
stem(name) ==
    LET i == rfind(name, ".")
    IN  IF 1 < i /\ i < Len(name) THEN SubSeq(name, 1, i - 1) ELSE name

\* s.split(sep): the sequence of the pieces of s between the occurrences of sep
RECURSIVE split(_, _)
split(s, sep) ==
    LET i == find(s, sep)
    IN  IF i = 0 THEN <<s>>
        ELSE <<SubSeq(s, 1, i - 1)>> \o split(SubSeq(s, i + Len(sep), Len(s)), sep)

\* "".join(parts): str(p) with every "/" and "\" replaced by ""
RECURSIVE flatten(_)
flatten(parts) == IF parts = <<>> THEN "" ELSE Head(parts) \o flatten(Tail(parts))

\* the elements of a set of strings as a sequence (directory listing order)
RECURSIVE SetToSeq(_)
SetToSeq(S) == IF S = {} THEN <<>>
               ELSE LET x == CHOOSE x \in S : TRUE IN <<x>> \o SetToSeq(S \ {x})

Range(seq) == {seq[i] : i \in 1..Len(seq)}

---------------------------------------------------------------------------
(* The filesystem the model explores                                       *)

FolderNames == <<"Foo", "Bar", "shared">>

\* folder names with a suffix, or spelled like a part of the root path
OddNames == <<"Foo.x", "Mods">>

\* every entry name of the model, in the order the directory lists them
DirOrder == FolderNames \o OddNames

NotADir == [is_dir |-> FALSE, scripts |-> {}, dlls |-> {}, enabled_txt |-> FALSE]

Folder(s, d, m) == [is_dir |-> TRUE, scripts |-> s, dlls |-> d, enabled_txt |-> m]

\* what a folder may hold in scripts/ and in dlls/
FolderFiles ==
    { <<{}, {}>>,
      <<{"util.lua", "notes.txt"}, {}>>,
      <<{"main.lua"}, {}>>,
      <<{"main.lua"}, {"main.dll"}>>,
      <<{}, {"main.dll"}>> }

Entries == {NotADir} \cup {Folder(f[1], f[2], m) : f \in FolderFiles, m \in BOOLEAN}

NoTxt == [exists |-> FALSE, lines |-> <<>>]
Txt(lines) == [exists |-> TRUE, lines |-> lines]

NoJson == [exists |-> FALSE, wellformed |-> TRUE, data |-> <<>>]
Json(data) == [exists |-> TRUE, wellformed |-> TRUE, data |-> data]
BadJson == [exists |-> TRUE, wellformed |-> FALSE, data |-> <<>>]

InitTxt == { NoTxt, Txt(<<"Foo : 1">>), Txt(<<"Foo : 0", "Bar : 1 ">>) }

InitJson == { NoJson, BadJson,
              Json(<<[mod_name |-> "Foo", mod_enabled |-> TRUE]>>),
              Json(<<[mod_name |-> "Foo", mod_enabled |-> FALSE], [mod_name |-> "Bar"]>>) }

ValidRoots == { [parts |-> <<"UE4SS", "Mods">>, kind |-> "dir"] }

MisnamedRoots == { [parts |-> <<"UE4SS", "Other">>, kind |-> "dir"],
                   [parts |-> <<"Games", "mods">>, kind |-> "dir"] }

AbsentRoots == { [parts |-> <<"ue4ss", "mods">>, kind |-> "missing"],
                 [parts |-> <<"UE4SS", "Mods">>, kind |-> "file"] }

FolderSets == {S \in SUBSET Range(FolderNames) : Cardinality(S) <= MaxFolders}

\* folders as Mod construction sees them: scripts/ and dlls/ with main files, other
\* files, dlls whose name only ends in main.dll, or nothing
ModFiles ==
    FolderFiles \cup { <<{}, {"xmain.dll"}>>, <<{}, {"abcmain.dll"}>> }

ModFolderSets == {S \in SUBSET Range(DirOrder) : Cardinality(S) <= MaxFolders}

---------------------------------------------------------------------------
(* The Mod entity (src/common/mod.py)                                      *)

UE4SSMod(name, p, enabled, scripts, lang) ==
    [name |-> name, path |-> p, enabled |-> enabled, scripts |-> scripts,
     is_native |-> FALSE, lang |-> lang]

NoMod == UE4SSMod("", "", FALSE, <<>>, "lua")

\* path.glob(pattern, case_sensitive=False) on the files of one subfolder
glob(files, ext) == SetToSeq({f \in files : endswith(upper(f), upper(ext))})

\* str(script).replace("/", "").replace("\\", "").split(name)[1][7:]
\* (Python's [1] is the second piece; [7:] drops the first seven characters)
script_name(rootParts, folder, sub, file, name) ==
    LET pieces == split(flatten(rootParts \o <<folder, sub, file>>), name)
    IN  IF Len(pieces) < 2 THEN [raised |-> TRUE, value |-> ""]
        ELSE [raised |-> FALSE, value |-> SubSeq(pieces[2], 8, Len(pieces[2]))]

\* from_path that takes the enabled flag from the marker file alone
from_path_marker_only(rootParts, folder, entry, override_enabled) ==
    LET name == stem(folder)
        luaf == glob(entry.scripts, ".lua")
        dllf == glob(entry.dlls, ".dll")
        lua  == [i \in 1..Len(luaf) |-> script_name(rootParts, folder, "scripts", luaf[i], name)]
        dll  == [i \in 1..Len(dllf) |-> script_name(rootParts, folder, "dlls", dllf[i], name)]
        all  == lua \o dll
        scripts == [i \in 1..Len(all) |-> all[i].value]
        lang == IF "main.lua" \in Range(scripts) THEN "lua" ELSE "cpp"
        enabled == entry.enabled_txt
    IN  IF ~entry.is_dir
          THEN [kind |-> "none", exc |-> "", mod |-> NoMod]
        ELSE IF \E i \in 1..Len(all) : all[i].raised
          THEN [kind |-> "raise", exc |-> "IndexError", mod |-> NoMod]
        ELSE IF scripts = <<>>
          THEN [kind |-> "raise", exc |-> "InvalidModException", mod |-> NoMod]
        ELSE IF "main.lua" \notin Range(scripts) /\ "main.dll" \notin Range(scripts)
          THEN [kind |-> "raise", exc |-> "InvalidModException", mod |-> NoMod]
        ELSE [kind |-> "mod", exc |-> "",
              mod |-> UE4SSMod(name, folder, enabled, scripts, lang)]

\* UE4SSMod.from_path: [kind |-> "none" | "raise" | "mod", exc, mod]
from_path(rootParts, folder, entry, override_enabled) ==
    LET name == stem(folder)
        luaf == glob(entry.scripts, ".lua")
        dllf == glob(entry.dlls, ".dll")
        lua  == [i \in 1..Len(luaf) |-> script_name(rootParts, folder, "scripts", luaf[i], name)]
        dll  == [i \in 1..Len(dllf) |-> script_name(rootParts, folder, "dlls", dllf[i], name)]
        all  == lua \o dll
        scripts == [i \in 1..Len(all) |-> all[i].value]
        lang == IF "main.lua" \in Range(scripts) THEN "lua" ELSE "cpp"
        enabled == entry.enabled_txt \/ override_enabled
    IN  IF ~entry.is_dir
          THEN [kind |-> "none", exc |-> "", mod |-> NoMod]
        ELSE IF \E i \in 1..Len(all) : all[i].raised
          THEN [kind |-> "raise", exc |-> "IndexError", mod |-> NoMod]
        ELSE IF scripts = <<>>
          THEN [kind |-> "raise", exc |-> "InvalidModException", mod |-> NoMod]
        ELSE IF "main.lua" \notin Range(scripts) /\ "main.dll" \notin Range(scripts)
          THEN [kind |-> "raise", exc |-> "InvalidModException", mod |-> NoMod]
        ELSE [kind |-> "mod", exc |-> "",
              mod |-> UE4SSMod(name, folder, enabled, scripts, lang)]

\* enable() that sets the flag and forgets the marker file
enable_flag_only(mod, ents) ==
    [mod |-> [mod EXCEPT !.enabled = TRUE], entries |-> ents]

\* UE4SSMod.enable: touch enabled.txt, set the flag
enable(mod, ents) ==
    [mod |-> [mod EXCEPT !.enabled = TRUE],
     entries |-> [ents EXCEPT ![mod.path].enabled_txt = TRUE]]

\* disable() that clears the flag and leaves the marker file
disable_flag_only(mod, ents) ==
    [mod |-> [mod EXCEPT !.enabled = FALSE], entries |-> ents]

\* UE4SSMod.disable: unlink enabled.txt when it exists, clear the flag
disable(mod, ents) ==
    [mod |-> [mod EXCEPT !.enabled = FALSE],
     entries |-> IF ents[mod.path].enabled_txt
                   THEN [ents EXCEPT ![mod.path].enabled_txt = FALSE]
                   ELSE ents]

---------------------------------------------------------------------------
(* The registry (src/common/mod_manager.py)                                *)

\* the lines of mods.txt that end in "1", stripped
overrides_txt(txt) ==
    IF txt.exists
      THEN LET keep(line) == endswith(strip(line), "1")
               kept == SelectSeq(txt.lines, keep)
           IN  [i \in 1..Len(kept) |-> strip(kept[i])]
      ELSE <<>>

\* the mod_name of every record of mods.json whose mod_enabled is true
overrides_json(json) ==
    IF json.exists
      THEN LET flagged(r) == IF "mod_enabled" \in DOMAIN r THEN r.mod_enabled ELSE FALSE
               kept == SelectSeq(json.data, flagged)
           IN  IF ~json.wellformed
                 THEN [raised |-> "JSONDecodeError", output |-> <<>>]
               ELSE IF \E i \in 1..Len(kept) : "mod_name" \notin DOMAIN kept[i]
                 THEN [raised |-> "KeyError", output |-> <<>>]
               ELSE [raised |-> "none", output |-> [i \in 1..Len(kept) |-> kept[i].mod_name]]
      ELSE [raised |-> "none", output |-> <<>>]

\* UE4SSModManager._get_enabled_overrides
_get_enabled_overrides(txt, json) ==
    LET j == overrides_json(json)
    IN  [raised |-> j.raised,
         output |-> IF j.raised = "none" THEN overrides_txt(txt) \o j.output ELSE <<>>]

\* UE4SSModManager._has_right_folder_structure
_has_right_folder_structure(p) ==
    LET n == Len(p.parts)
    IN  /\ upper(stem(p.parts[n])) = "MODS"
        /\ upper(stem(p.parts[n - 1])) = "UE4SS"

\* self.path.iterdir(): the entries of the root, in directory order
iterdir(ents) ==
    LET present(n) == n \in DOMAIN ents
    IN  SelectSeq(DirOrder, present)

\* UE4SSModManager.load_mods
RECURSIVE load_from(_, _, _, _)
load_from(p, ents, names, enabled_overrides) ==
    IF names = <<>> THEN <<>>
    ELSE LET mod_path == Head(names)
             rest == load_from(p, ents, Tail(names), enabled_overrides)
             r == from_path(p.parts, mod_path, ents[mod_path],
                            stem(mod_path) \in Range(enabled_overrides))
         IN  IF ents[mod_path].is_dir /\ upper(stem(mod_path)) # "SHARED" /\ r.kind = "mod"
               THEN <<r.mod>> \o rest
               ELSE rest

load_mods(p, ents, enabled_overrides) == load_from(p, ents, iterdir(ents), enabled_overrides)

\* UE4SSModManager.__init__: [status, mods, events]; events lists, in order, the
\* files read and the steps taken
ManagerInit(p, ents, txt, json) ==
    LET ov == _get_enabled_overrides(txt, json)
        reads == (IF txt.exists THEN <<"read mods.txt">> ELSE <<>>)
                 \o (IF json.exists THEN <<"read mods.json">> ELSE <<>>)
    IN  IF ov.raised # "none"
          THEN [status |-> ov.raised, mods |-> <<>>, events |-> reads]
        ELSE IF p.kind # "dir" \/ ~_has_right_folder_structure(p)
          THEN [status |-> "InvalidModFolderException", mods |-> <<>>,
                events |-> reads \o <<"validate">>]
        ELSE [status |-> "ok", mods |-> load_mods(p, ents, ov.output),
              events |-> reads \o <<"validate", "load_mods">>]

---------------------------------------------------------------------------
(* Persisting (src/common/mod_manager.py, parse_mods and its writers).     *)
(* A write can fail with an OSError at any of its filesystem calls; fail   *)
(* = [at, who] names the call that fails in this run ("none": no failure), *)
(* who being the mod folder for the two marker-file calls.                 *)
(* st = [json, txt, entries, raised] is the disk and whether the call has  *)
(* raised.                                                                 *)

IsEnabled(mod) == mod.enabled
IsDisabled(mod) == ~mod.enabled

NoFail == [at |-> "none", who |-> ""]

\* [{"mod_name": mod.name, "mod_enabled": mod.enabled} for mod in mods if mod.enabled]
json_output(mods_) ==
    LET en == SelectSeq(mods_, IsEnabled)
    IN  [i \in 1..Len(en) |-> [mod_name |-> en[i].name, mod_enabled |-> en[i].enabled]]

\* [f"{mod.name} : 1\n" for mod in mods if mod.enabled], one line per element
txt_output(mods_) ==
    LET en == SelectSeq(mods_, IsEnabled)
    IN  [i \in 1..Len(en) |-> en[i].name \o " : 1"]

\* a writer that appends to the records already in the file instead of replacing it
_write_to_mods_json_merge(st, mods_, fail) ==
    IF st.json.exists /\ fail.at = "json_unlink"
      THEN [st EXCEPT !.raised = TRUE]
    ELSE IF fail.at = "json_open"
      THEN [st EXCEPT !.json = NoJson, !.raised = TRUE]
    ELSE IF fail.at = "json_write"
      THEN [st EXCEPT !.json = BadJson, !.raised = TRUE]
    ELSE [st EXCEPT !.json = Json((IF st.json.wellformed THEN st.json.data ELSE <<>>)
                                  \o json_output(mods_))]

\* UE4SSModManager._write_to_mods_json
_write_to_mods_json(st, mods_, fail) ==
    IF st.json.exists /\ fail.at = "json_unlink"
      THEN [st EXCEPT !.raised = TRUE]
    ELSE IF fail.at = "json_open"
      THEN [st EXCEPT !.json = NoJson, !.raised = TRUE]
    ELSE IF fail.at = "json_write"
      THEN [st EXCEPT !.json = BadJson, !.raised = TRUE]
    ELSE [st EXCEPT !.json = Json(json_output(mods_))]

\* a writer that opens the text list for appending and keeps the old lines
_write_to_mods_txt_append(st, mods_, fail) ==
    IF st.txt.exists /\ fail.at = "txt_unlink"
      THEN [st EXCEPT !.raised = TRUE]
    ELSE IF fail.at = "txt_open"
      THEN [st EXCEPT !.txt = NoTxt, !.raised = TRUE]
    ELSE IF fail.at = "txt_write"
      THEN [st EXCEPT !.txt = Txt(<<>>), !.raised = TRUE]
    ELSE [st EXCEPT !.txt = Txt((IF st.txt.exists THEN st.txt.lines ELSE <<>>)
                                \o txt_output(mods_))]

\* UE4SSModManager._write_to_mods_txt
_write_to_mods_txt(st, mods_, fail) ==
    IF st.txt.exists /\ fail.at = "txt_unlink"
      THEN [st EXCEPT !.raised = TRUE]
    ELSE IF fail.at = "txt_open"
      THEN [st EXCEPT !.txt = NoTxt, !.raised = TRUE]
    ELSE IF fail.at = "txt_write"
      THEN [st EXCEPT !.txt = Txt(<<>>), !.raised = TRUE]
    ELSE [st EXCEPT !.txt = Txt(txt_output(mods_))]

\* for mod in enabled_mods: mod.enable()
RECURSIVE enable_all(_, _, _)
enable_all(st, mods_, fail) ==
    IF mods_ = <<>> \/ st.raised THEN st
    ELSE LET mod == Head(mods_)
         IN  IF fail.at = "touch" /\ fail.who = mod.path
               THEN [st EXCEPT !.raised = TRUE]
               ELSE enable_all([st EXCEPT !.entries = enable(mod, st.entries).entries],
                               Tail(mods_), fail)

\* for mod in disabled_mods: mod.disable()
RECURSIVE disable_all(_, _, _)
disable_all(st, mods_, fail) ==
    IF mods_ = <<>> \/ st.raised THEN st
    ELSE LET mod == Head(mods_)
         IN  IF fail.at = "marker_unlink" /\ fail.who = mod.path /\ st.entries[mod.path].enabled_txt
               THEN [st EXCEPT !.raised = TRUE]
               ELSE disable_all([st EXCEPT !.entries = disable(mod, st.entries).entries],
                                Tail(mods_), fail)

\* parse_mods that goes on to the next backend after a write has failed
parse_mods_keep_going(st, mods_, save_enabled_txt, save_mods_json, save_mods_txt, fail) ==
    LET enabled_mods == SelectSeq(mods_, IsEnabled)
        disabled_mods == SelectSeq(mods_, IsDisabled)
        cont(s) == [s EXCEPT !.raised = FALSE]
        s1 == IF save_mods_json THEN _write_to_mods_json(st, enabled_mods, fail) ELSE st
        s2 == IF save_mods_txt THEN _write_to_mods_txt(cont(s1), enabled_mods, fail) ELSE cont(s1)
        s3 == IF save_enabled_txt
                THEN disable_all(enable_all(cont(s2), enabled_mods, fail), disabled_mods, fail)
                ELSE cont(s2)
    IN  [s3 EXCEPT !.raised = s1.raised \/ s2.raised \/ s3.raised]

\* parse_mods that writes the text list before the JSON manifest
parse_mods_txt_first(st, mods_, save_enabled_txt, save_mods_json, save_mods_txt, fail) ==
    LET enabled_mods == SelectSeq(mods_, IsEnabled)
        disabled_mods == SelectSeq(mods_, IsDisabled)
        s1 == IF save_mods_txt THEN _write_to_mods_txt(st, enabled_mods, fail) ELSE st
        s2 == IF s1.raised THEN s1
              ELSE IF save_mods_json THEN _write_to_mods_json(s1, enabled_mods, fail) ELSE s1
        s3 == IF s2.raised THEN s2
              ELSE IF save_enabled_txt
                THEN disable_all(enable_all(s2, enabled_mods, fail), disabled_mods, fail)
                ELSE s2
    IN  s3

\* parse_mods that rewrites the text list whether or not it was asked for
parse_mods_always_txt(st, mods_, save_enabled_txt, save_mods_json, save_mods_txt, fail) ==
    LET enabled_mods == SelectSeq(mods_, IsEnabled)
        disabled_mods == SelectSeq(mods_, IsDisabled)
        s1 == IF save_mods_json THEN _write_to_mods_json(st, enabled_mods, fail) ELSE st
        s2 == IF s1.raised THEN s1
              ELSE _write_to_mods_txt(s1, enabled_mods, fail)
        s3 == IF s2.raised THEN s2
              ELSE IF save_enabled_txt
                THEN disable_all(enable_all(s2, enabled_mods, fail), disabled_mods, fail)
                ELSE s2
    IN  s3

\* UE4SSModManager.parse_mods
parse_mods(st, mods_, save_enabled_txt, save_mods_json, save_mods_txt, fail) ==
    LET enabled_mods == SelectSeq(mods_, IsEnabled)
        disabled_mods == SelectSeq(mods_, IsDisabled)
        s1 == IF save_mods_json THEN _write_to_mods_json(st, enabled_mods, fail) ELSE st
        s2 == IF s1.raised THEN s1
              ELSE IF save_mods_txt THEN _write_to_mods_txt(s1, enabled_mods, fail) ELSE s1
        s3 == IF s2.raised THEN s2
              ELSE IF save_enabled_txt
                THEN disable_all(enable_all(s2, enabled_mods, fail), disabled_mods, fail)
                ELSE s2
    IN  s3

\* UE4SSModManager.enable_mods / disable_mods on the registry
RECURSIVE enable_mods(_, _, _)
enable_mods(mods_, ents, mod_names) ==
    IF mods_ = <<>> THEN [mods |-> <<>>, entries |-> ents]
    ELSE LET mod == Head(mods_)
             r == IF mod.name \in mod_names THEN enable(mod, ents)
                  ELSE [mod |-> mod, entries |-> ents]
             rest == enable_mods(Tail(mods_), r.entries, mod_names)
         IN  [mods |-> <<r.mod>> \o rest.mods, entries |-> rest.entries]

RECURSIVE disable_mods(_, _, _)
disable_mods(mods_, ents, mod_names) ==
    IF mods_ = <<>> THEN [mods |-> <<>>, entries |-> ents]
    ELSE LET mod == Head(mods_)
             r == IF mod.name \in mod_names THEN disable(mod, ents)
                  ELSE [mod |-> mod, entries |-> ents]
             rest == disable_mods(Tail(mods_), r.entries, mod_names)
         IN  [mods |-> <<r.mod>> \o rest.mods, entries |-> rest.entries]

---------------------------------------------------------------------------
(* The GUI handlers (src/common/gui.py)                                    *)

ModNames(mods_) == {mods_[i].name : i \in 1..Len(mods_)}

\* populate_mod_list builds one checkbox per mod name, and the user may click
\* any of them before saving: the values self.mod_checkboxes can hold
mod_checkboxes(mods_) == [ModNames(mods_) -> BOOLEAN]

\* get_mod_objects: a fresh UE4SSMod per registry mod, enabled taken from its checkbox
get_mod_objects(mods_, boxes) ==
    LET has(mod) == mod.name \in DOMAIN boxes
        shown == SelectSeq(mods_, has)
    IN  [i \in 1..Len(shown) |->
            UE4SSMod(shown[i].name, shown[i].path, boxes[shown[i].name],
                     shown[i].scripts, "lua")]

---------------------------------------------------------------------------
(* The state machine                                                       *)

\* lastOp: the operation, its inputs, its outcome, and the operation before it
\* (for a restart: the whole save the old process ended with);
\* repeat: a save that returned, right after a save of the same list and options that
\* returned
Op(op, m, j, t, fail, names, desired, raised, events) ==
    [op |-> op, save_enabled_txt |-> m, save_mods_json |-> j, save_mods_txt |-> t,
     fail |-> fail, names |-> names, desired |-> desired, raised |-> raised,
     events |-> events,
     prev |-> IF op = "restart"
                THEN [op |-> lastOp.op, names |-> lastOp.names,
                      save_enabled_txt |-> lastOp.save_enabled_txt,
                      save_mods_json |-> lastOp.save_mods_json,
                      save_mods_txt |-> lastOp.save_mods_txt,
                      desired |-> lastOp.desired, raised |-> lastOp.raised]
                ELSE [op |-> lastOp.op, names |-> lastOp.names],
     repeat |-> /\ op = "save" /\ lastOp.op = "save"
                /\ ~raised /\ ~lastOp.raised
                /\ lastOp.desired = desired
                /\ lastOp.save_enabled_txt = m
                /\ lastOp.save_mods_json = j
                /\ lastOp.save_mods_txt = t]

NoOp ==
    [op |-> "none", save_enabled_txt |-> FALSE, save_mods_json |-> FALSE,
     save_mods_txt |-> FALSE, fail |-> NoFail, names |-> {}, desired |-> <<>>,
     raised |-> FALSE, events |-> <<>>, prev |-> [op |-> "none", names |-> {}],
     repeat |-> FALSE]

InitManager ==
    /\ mgr = "none"
    /\ mods = <<>>
    /\ lastOp = NoOp
    /\ constructed = <<>>
    /\ fsDirty = FALSE

\* list files left in the root by an earlier run
SavedLists ==
    { <<NoTxt, NoJson>>,
      <<Txt(<<"Foo : 1">>), Json(<<[mod_name |-> "Bar", mod_enabled |-> TRUE]>>)>> }

\* a recognised root whose folders hold a scripts/main.lua and no marker file yet,
\* and both list files; saving then produces every other state of the three backends
Init ==
    /\ path \in ValidRoots
    /\ \E S \in FolderSets : entries = [n \in S |-> Folder({"main.lua"}, {}, FALSE)]
    /\ modsTxt = Txt(<<"Foo : 1">>)
    /\ modsJson = Json(<<[mod_name |-> "Bar", mod_enabled |-> TRUE]>>)
    /\ InitManager

\* a recognised root whose folders hold a scripts/main.lua, with or without the
\* marker file, or nothing at all
InitEntity ==
    /\ path \in ValidRoots
    /\ \E S \in FolderSets :
          entries \in [S -> {Folder({"main.lua"}, {}, FALSE), Folder({"main.lua"}, {}, TRUE),
                             Folder({}, {}, FALSE)}]
    /\ \E l \in SavedLists : modsTxt = l[1] /\ modsJson = l[2]
    /\ InitManager

\* any root, any mix of entries and list files
InitDiscovery ==
    /\ path \in ValidRoots \cup MisnamedRoots \cup AbsentRoots
    /\ IF path.kind = "dir"
         THEN /\ \E S \in FolderSets : entries \in [S -> Entries]
              /\ modsTxt \in InitTxt
              /\ modsJson \in InitJson
         ELSE /\ entries = [n \in {} |-> NotADir]
              /\ modsTxt = NoTxt
              /\ modsJson = NoJson
    /\ InitManager

\* a recognised root with one mod folder, Foo or Bar, no marker file yet, and both list
\* files as an earlier run left them (from_path and enable/disable treat each mod alone)
InitRestart ==
    /\ path \in ValidRoots
    /\ \E n \in {"Foo", "Bar"} : entries = [x \in {n} |-> Folder({"main.lua"}, {}, FALSE)]
    /\ modsTxt = Txt(<<"Foo : 1">>)
    /\ modsJson = Json(<<[mod_name |-> "Bar", mod_enabled |-> TRUE]>>)
    /\ InitManager

\* a recognised root, folders of any name holding any of ModFiles, no list files
InitMod ==
    /\ path \in ValidRoots
    /\ \E S \in ModFolderSets :
          entries \in [S -> {Folder(f[1], f[2], FALSE) : f \in ModFiles}]
    /\ modsTxt = NoTxt
    /\ modsJson = NoJson
    /\ InitManager

\* main(): UE4SSModManager(mods_folder)
Construct ==
    /\ mgr = "none"
    /\ LET r == ManagerInit(path, entries, modsTxt, modsJson)
       IN  /\ mgr' = r.status
           /\ mods' = r.mods
           /\ constructed' = r.mods
           /\ lastOp' = Op("construct", FALSE, FALSE, FALSE, NoFail, {}, <<>>,
                           r.status # "ok", r.events)
    /\ UNCHANGED <<path, entries, modsTxt, modsJson, fsDirty>>

\* the filesystem calls a parse_mods run with these options makes, any of which may fail
Fails(m, j, t, mods_) ==
    {NoFail}
    \cup (IF j THEN {[at |-> a, who |-> ""] : a \in {"json_unlink", "json_open", "json_write"}}
          ELSE {})
    \cup (IF t THEN {[at |-> a, who |-> ""] : a \in {"txt_unlink", "txt_open", "txt_write"}}
          ELSE {})
    \cup (IF m THEN {[at |-> a, who |-> mods_[i].path] :
                        a \in {"touch", "marker_unlink"}, i \in 1..Len(mods_)}
          ELSE {})

\* save_changes: parse_mods on the copies get_mod_objects builds
save_changes ==
    /\ mgr = "ok"
    /\ \E boxes \in mod_checkboxes(mods), m \in BOOLEAN, j \in BOOLEAN, t \in BOOLEAN :
       \E fail \in Fails(m, j, t, mods) :
          LET updated_mods == get_mod_objects(mods, boxes)
              st == [json |-> modsJson, txt |-> modsTxt, entries |-> entries, raised |-> FALSE]
          IN  \E r \in {parse_mods(st, updated_mods, m, j, t, fail)} :
                /\ fail.at = "none" \/ r.raised
                /\ modsJson' = r.json
                /\ modsTxt' = r.txt
                /\ entries' = r.entries
                /\ fsDirty' = (fsDirty \/ r.json # modsJson \/ r.txt # modsTxt
                                       \/ r.entries # entries)
                /\ lastOp' = Op("save", m, j, t, fail, {}, updated_mods, r.raised, <<>>)
    /\ UNCHANGED <<path, mgr, mods, constructed>>

\* refresh_mods: self.mod_manager.mods = self.mod_manager.load_mods()
refresh_mods ==
    /\ mgr = "ok"
    /\ mods' = load_mods(path, entries, <<>>)
    /\ lastOp' = Op("refresh", FALSE, FALSE, FALSE, NoFail, {}, <<>>, FALSE, <<>>)
    /\ UNCHANGED <<path, entries, modsTxt, modsJson, mgr, constructed, fsDirty>>

\* mod_manager.enable_mods(mod_names)
EnableMods ==
    /\ mgr = "ok"
    /\ \E n \in ModNames(mods) :
          LET r == enable_mods(mods, entries, {n})
          IN  /\ mods' = r.mods
              /\ entries' = r.entries
              /\ fsDirty' = (fsDirty \/ r.entries # entries)
              /\ lastOp' = Op("enable", FALSE, FALSE, FALSE, NoFail, {n}, <<>>, FALSE, <<>>)
    /\ UNCHANGED <<path, modsTxt, modsJson, mgr, constructed>>

\* mod_manager.disable_mods(mod_names)
DisableMods ==
    /\ mgr = "ok"
    /\ \E n \in ModNames(mods) :
          LET r == disable_mods(mods, entries, {n})
          IN  /\ mods' = r.mods
              /\ entries' = r.entries
              /\ fsDirty' = (fsDirty \/ r.entries # entries)
              /\ lastOp' = Op("disable", FALSE, FALSE, FALSE, NoFail, {n}, <<>>, FALSE, <<>>)
    /\ UNCHANGED <<path, modsTxt, modsJson, mgr, constructed>>

(* The product of every input with every operation is too large to explore *)
(* at once; three specifications explore the machine, each from the inputs  *)
(* its operations depend on.                                                *)

\* saving from the GUI
Next ==
    \/ Construct
    \/ save_changes

Spec == Init /\ [][Next]_vars

\* enabling and disabling the mods of the registry
NextEntity ==
    \/ Construct
    \/ EnableMods
    \/ DisableMods
    \/ refresh_mods

SpecEntity == InitEntity /\ [][NextEntity]_vars

\* constructing and reloading the registry
NextDiscovery ==
    \/ Construct
    \/ refresh_mods

SpecDiscovery == InitDiscovery /\ [][NextDiscovery]_vars

\* the program is closed after a save and started again on the same root:
\* main() builds a new UE4SSModManager(mods_folder)
Restart ==
    /\ mgr = "ok"
    /\ lastOp.op = "save"
    /\ LET r == ManagerInit(path, entries, modsTxt, modsJson)
       IN  /\ mgr' = r.status
           /\ mods' = r.mods
           /\ constructed' = r.mods
           /\ lastOp' = Op("restart", FALSE, FALSE, FALSE, NoFail, {}, <<>>,
                           r.status # "ok", r.events)
    /\ fsDirty' = FALSE
    /\ UNCHANGED <<path, entries, modsTxt, modsJson>>

\* saving, then starting the program again
NextRestart ==
    \/ Construct
    \/ save_changes
    \/ Restart

SpecRestart == InitRestart /\ [][NextRestart]_vars

\* constructing Mods from folders of any name and content
NextMod ==
    \/ Construct
    \/ refresh_mods

SpecMod == InitMod /\ [][NextMod]_vars

---------------------------------------------------------------------------
(* Properties                                                              *)

JsonFails == {"json_unlink", "json_open", "json_write"}
TxtFails == {"txt_unlink", "txt_open", "txt_write"}
MarkerFails == {"touch", "marker_unlink"}

\* the names of the mods a desired-state list enables, in list order
EnabledNames(desired) ==
    LET en == SelectSeq(desired, IsEnabled)
    IN  [i \in 1..Len(en) |-> en[i].name]

\* the manifest and the text list a desired-state list asks for
WantedJson(desired) ==
    LET ns == EnabledNames(desired)
    IN  [exists |-> TRUE, wellformed |-> TRUE,
         data |-> [i \in 1..Len(ns) |-> [mod_name |-> ns[i], mod_enabled |-> TRUE]]]

WantedTxt(desired) ==
    LET ns == EnabledNames(desired)
    IN  [exists |-> TRUE, lines |-> [i \in 1..Len(ns) |-> ns[i] \o " : 1"]]

\* the folder is a mod by the layout rules: a directory with scripts/main.lua or dlls/main.dll
IsModFolder(e) == e.is_dir /\ ("main.lua" \in e.scripts \/ "main.dll" \in e.dlls)

\* the root is an existing directory named Mods inside a directory named UE4SS
IsModsRoot(p) ==
    /\ p.kind = "dir"
    /\ upper(p.parts[Len(p.parts)]) = "MODS"
    /\ upper(p.parts[Len(p.parts) - 1]) = "UE4SS"

\* C1: after construction, a mod whose folder has no enabled.txt and whose name is
\* listed as "<name> : 1" in mods.txt is enabled.
C1_TextListSeedsEnabled ==
    (lastOp.op = "construct" /\ mgr = "ok") =>
        \A i \in 1..Len(mods) :
            ( /\ ~entries[mods[i].path].enabled_txt
              /\ modsTxt.exists
              /\ (mods[i].path \o " : 1") \in Range(modsTxt.lines) )
            => mods[i].enabled

\* C2: after a save that wrote the JSON manifest, mods.json holds exactly one record
\* {mod_name, mod_enabled: true} per enabled mod of the list, in list order, and nothing
\* else; the overrides read back from it are exactly the enabled names.
C2_JsonManifestRoundTrip ==
    (lastOp.op = "save" /\ lastOp.save_mods_json /\ lastOp.fail.at \notin JsonFails) =>
        /\ modsJson = WantedJson(lastOp.desired)
        /\ overrides_json(modsJson).raised = "none"
        /\ Range(overrides_json(modsJson).output) = Range(EnabledNames(lastOp.desired))

\* C2 witness: a manifest written for a list with one enabled and one disabled mod
C2_Witness ==
    /\ lastOp.op = "save" /\ lastOp.save_mods_json /\ ~lastOp.raised
    /\ \E i, k \in 1..Len(lastOp.desired) : lastOp.desired[i].enabled /\ ~lastOp.desired[k].enabled
    /\ Len(modsJson.data) = 1

\* C3: constructing on a root that is missing, not a directory, or not a Mods folder
\* inside a UE4SS folder fails with InvalidModFolder whatever the root holds, without
\* reading an override file first, and yields no registry.
C3_InvalidRootRejectedFirst ==
    (lastOp.op = "construct" /\ ~IsModsRoot(path)) =>
        /\ mgr = "InvalidModFolderException"
        /\ lastOp.events = <<"validate">>
        /\ mods = <<>>

\* C4: a scan of a valid root yields exactly one Mod per mod folder other than SHARED
\* and none for any other entry.
C4_OneModPerValidFolder ==
    (lastOp.op \in {"construct", "refresh"} /\ mgr = "ok") =>
        \A n \in DOMAIN entries :
            Cardinality({i \in 1..Len(mods) : mods[i].path = n})
                = IF IsModFolder(entries[n]) /\ upper(n) # "SHARED" THEN 1 ELSE 0

\* C5: after a save with the marker option that returned, every mod of the list has its
\* enabled.txt if and only if the list enables it.
C5_MarkersMatchDesired ==
    (lastOp.op = "save" /\ lastOp.save_enabled_txt /\ ~lastOp.raised) =>
        \A i \in 1..Len(lastOp.desired) :
            entries[lastOp.desired[i].path].enabled_txt = lastOp.desired[i].enabled

\* C5 witness: a marker save of a list with one enabled and one disabled mod
C5_Witness ==
    /\ lastOp.op = "save" /\ lastOp.save_enabled_txt /\ ~lastOp.raised
    /\ \E i, k \in 1..Len(lastOp.desired) :
          /\ lastOp.desired[i].enabled /\ entries[lastOp.desired[i].path].enabled_txt
          /\ ~lastOp.desired[k].enabled /\ ~entries[lastOp.desired[k].path].enabled_txt

\* C6: after a save that returned, every mod of the registry has the enabled flag that
\* was saved for its name.
C6_RegistryReflectsSave ==
    (lastOp.op = "save" /\ ~lastOp.raised) =>
        \A i \in 1..Len(mods) : \A k \in 1..Len(lastOp.desired) :
            lastOp.desired[k].name = mods[i].name => mods[i].enabled = lastOp.desired[k].enabled

\* C7: a reload on an unchanged filesystem yields the mods construction yielded, with
\* the same enabled flags.
C7_ReloadRepeatsConstruct ==
    (lastOp.op = "refresh" /\ ~fsDirty) =>
        /\ Len(mods) = Len(constructed)
        /\ \A i \in 1..Len(mods) :
              /\ mods[i].name = constructed[i].name
              /\ mods[i].enabled = constructed[i].enabled

\* C8: when a backend write fails during a save, the call raises, the backends written
\* before it hold what this call wrote, and the backends after it are untouched.
C8_FailFastNoRollback ==
    [][ (lastOp'.op = "save" /\ lastOp'.fail.at # "none") =>
          LET f == lastOp'.fail.at
              d == lastOp'.desired
              jsonDone == IF lastOp'.save_mods_json THEN modsJson' = WantedJson(d)
                          ELSE modsJson' = modsJson
              txtDone == IF lastOp'.save_mods_txt THEN modsTxt' = WantedTxt(d)
                         ELSE modsTxt' = modsTxt
          IN  /\ lastOp'.raised
              /\ f \in JsonFails => (modsTxt' = modsTxt /\ entries' = entries)
              /\ f \in TxtFails => (jsonDone /\ entries' = entries)
              /\ f \in MarkerFails => (jsonDone /\ txtDone) ]_vars

\* C8 witness: the text list failed after the manifest had been rewritten
C8_Witness ==
    /\ lastOp.op = "save" /\ lastOp.raised
    /\ lastOp.save_mods_json /\ lastOp.fail.at \in TxtFails
    /\ modsJson = WantedJson(lastOp.desired)
    /\ Len(modsJson.data) = 2

\* C9 as stated: when both list files are requested and the manifest write fails, the
\* text list already holds this call's enabled set.
C9_TextListCommittedFirst ==
    ( /\ lastOp.op = "save" /\ lastOp.save_mods_txt /\ lastOp.save_mods_json
      /\ lastOp.fail.at \in JsonFails )
    => modsTxt = WantedTxt(lastOp.desired)

\* C9 amended: when both list files are requested and the text-list write fails, the
\* manifest already holds this call's enabled set.
C9_ManifestCommittedFirst ==
    ( /\ lastOp.op = "save" /\ lastOp.save_mods_txt /\ lastOp.save_mods_json
      /\ lastOp.fail.at \in TxtFails )
    => modsJson = WantedJson(lastOp.desired)

\* C9 witness: both list files requested, the text list failed, the manifest lists Foo only
C9_Witness ==
    /\ lastOp.op = "save" /\ lastOp.save_mods_txt /\ lastOp.save_mods_json
    /\ lastOp.fail.at \in TxtFails /\ lastOp.raised
    /\ modsJson.data = <<[mod_name |-> "Foo", mod_enabled |-> TRUE]>>
    /\ Len(lastOp.desired) = 2

\* C10: enable then disable leaves no marker and a cleared flag; disable of a disabled
\* mod without marker changes nothing; enable of a mod whose marker exists keeps the
\* marker and sets the flag.
C10_EnableDisable ==
    [][ /\ (lastOp'.op = "disable" /\ lastOp.op = "enable" /\ lastOp'.names = lastOp.names) =>
              \A i \in 1..Len(mods') :
                  mods'[i].name \in lastOp'.names =>
                      ~mods'[i].enabled /\ ~entries'[mods'[i].path].enabled_txt
        /\ ( /\ lastOp'.op = "disable"
             /\ \A i \in 1..Len(mods) :
                   mods[i].name \in lastOp'.names =>
                       ~mods[i].enabled /\ ~entries[mods[i].path].enabled_txt )
           => (mods' = mods /\ entries' = entries)
        /\ lastOp'.op = "enable" =>
              \A i \in 1..Len(mods) :
                  (mods[i].name \in lastOp'.names /\ entries[mods[i].path].enabled_txt) =>
                      mods'[i].enabled /\ entries'[mods[i].path].enabled_txt ]_vars

\* C10 witness: a mod was enabled and then disabled
C10_Witness ==
    /\ lastOp.op = "disable" /\ lastOp.prev.op = "enable" /\ lastOp.prev.names = lastOp.names
    /\ \E i \in 1..Len(mods) :
          mods[i].name \in lastOp.names /\ ~mods[i].enabled /\ ~entries[mods[i].path].enabled_txt

\* the Mods the registry holds for the folder n
ModsOf(n) == {i \in 1..Len(mods) : mods[i].path = n}

Scanned == lastOp.op \in {"construct", "refresh"} /\ mgr = "ok"

\* C11: every folder (other than SHARED) that holds scripts/main.lua yields a Mod with
\* lang = lua whose scripts contain "main.lua", whatever its name and other files.
C11_MainLuaMakesLuaMod ==
    Scanned =>
        \A n \in DOMAIN entries :
            (entries[n].is_dir /\ "main.lua" \in entries[n].scripts /\ upper(n) # "SHARED") =>
                \E i \in ModsOf(n) :
                    mods[i].lang = "lua" /\ "main.lua" \in Range(mods[i].scripts)

\* C12: a folder with no scripts/main.lua and no dlls/main.dll never yields a Mod.
C12_NoMainNoMod ==
    Scanned =>
        \A n \in DOMAIN entries :
            ("main.lua" \notin entries[n].scripts /\ "main.dll" \notin entries[n].dlls) =>
                ModsOf(n) = {}

\* C13: every folder (other than SHARED) that holds dlls/main.dll and no scripts/main.lua
\* yields a Mod with lang = cpp whose scripts hold each dll under its own file name.
C13_MainDllMakesCppMod ==
    Scanned =>
        \A n \in DOMAIN entries :
            ( /\ entries[n].is_dir /\ upper(n) # "SHARED"
              /\ "main.dll" \in entries[n].dlls /\ "main.lua" \notin entries[n].scripts ) =>
                \E i \in ModsOf(n) :
                    /\ mods[i].lang = "cpp"
                    /\ "main.dll" \in Range(mods[i].scripts)
                    /\ entries[n].dlls \subseteq Range(mods[i].scripts)

\* C14: no two Mods of a registry produced by construct or reload have the same name.
C14_NamesUnique ==
    Scanned =>
        \A i, k \in 1..Len(mods) : i # k => mods[i].name # mods[k].name

\* C15: a save that returns, right after a save of the same list and options that
\* returned, leaves mods.json, mods.txt and the marker files as the first save left them.
C15_SaveIdempotent ==
    [][ ( /\ lastOp.op = "save" /\ lastOp'.op = "save"
          /\ ~lastOp.raised /\ ~lastOp'.raised
          /\ lastOp'.desired = lastOp.desired
          /\ lastOp'.save_enabled_txt = lastOp.save_enabled_txt
          /\ lastOp'.save_mods_json = lastOp.save_mods_json
          /\ lastOp'.save_mods_txt = lastOp.save_mods_txt )
        => (modsJson' = modsJson /\ modsTxt' = modsTxt /\ entries' = entries) ]_vars

\* C15 witness: the second of two equal saves with all three options, on a list with
\* one enabled and one disabled mod
C15_Witness ==
    /\ lastOp.op = "save" /\ lastOp.repeat
    /\ lastOp.save_enabled_txt /\ lastOp.save_mods_json /\ lastOp.save_mods_txt
    /\ \E i, k \in 1..Len(lastOp.desired) : lastOp.desired[i].enabled /\ ~lastOp.desired[k].enabled
    /\ modsTxt = WantedTxt(lastOp.desired)
    /\ modsJson = WantedJson(lastOp.desired)

\* C16: a save leaves mods.json unchanged without the manifest option, mods.txt unchanged
\* without the text-list option, and every marker file and every registry flag unchanged
\* without the marker option, whether or not the call raises.
C16_OnlyChosenBackends ==
    [][ lastOp'.op = "save" =>
          /\ ~lastOp'.save_mods_json => modsJson' = modsJson
          /\ ~lastOp'.save_mods_txt => modsTxt' = modsTxt
          /\ ~lastOp'.save_enabled_txt => (entries' = entries /\ mods' = mods) ]_vars

\* C16 witness: a save with the manifest option only; the text list and the markers do
\* not hold what the list asks for
C16_Witness ==
    /\ lastOp.op = "save" /\ ~lastOp.raised
    /\ lastOp.save_mods_json /\ ~lastOp.save_mods_txt /\ ~lastOp.save_enabled_txt
    /\ modsJson = WantedJson(lastOp.desired)
    /\ modsTxt # WantedTxt(lastOp.desired)
    /\ \E i \in 1..Len(lastOp.desired) :
          lastOp.desired[i].enabled /\ ~entries[lastOp.desired[i].path].enabled_txt

\* the save the old process ended with used the marker option alone and returned
MarkerOnlySaveThenRestart ==
    /\ lastOp.op = "restart" /\ mgr = "ok"
    /\ lastOp.prev.save_enabled_txt /\ ~lastOp.prev.save_mods_json /\ ~lastOp.prev.save_mods_txt
    /\ ~lastOp.prev.raised

\* the flag the list asked for the mod of this name
Requested(desired, n) == \E k \in 1..Len(desired) : desired[k].name = n /\ desired[k].enabled

\* the name is listed as enabled in mods.json, or is a stripped line of mods.txt ending in 1
ListedEnabled(n) ==
    \/ /\ modsJson.exists
       /\ \E r \in Range(modsJson.data) :
             /\ "mod_name" \in DOMAIN r /\ "mod_enabled" \in DOMAIN r
             /\ r.mod_name = n /\ r.mod_enabled
    \/ /\ modsTxt.exists
       /\ \E l \in Range(modsTxt.lines) : endswith(strip(l), "1") /\ strip(l) = n

\* C17 as stated: after a marker-only save of a list covering every registry mod and a
\* restart, every mod is reported with exactly the enabled flag the list asked for.
C17_MarkerSaveSurvivesRestart ==
    MarkerOnlySaveThenRestart =>
        \A i \in 1..Len(mods) : mods[i].enabled = Requested(lastOp.prev.desired, mods[i].name)

\* C17 amended: after such a save and restart, a mod is reported enabled if and only if
\* the list asked for it enabled or a list file names it as enabled.
C17_MarkerOrListAfterRestart ==
    MarkerOnlySaveThenRestart =>
        /\ Len(mods) = Len(lastOp.prev.desired)
        /\ \A i \in 1..Len(mods) :
              mods[i].enabled = ( \/ Requested(lastOp.prev.desired, mods[i].name)
                                  \/ ListedEnabled(mods[i].name) )

\* C17 witness: after the restart a mod is reported enabled although the list asked for
\* it disabled and its marker is gone: mods.json still lists it
C17_Witness ==
    /\ MarkerOnlySaveThenRestart
    /\ \E k \in 1..Len(mods) :
          /\ mods[k].enabled /\ ~Requested(lastOp.prev.desired, mods[k].name)
          /\ ~entries[mods[k].path].enabled_txt /\ ListedEnabled(mods[k].name)

====
